---------------------------- MODULE Spec2Model ----------------------------
(***************************************************************************)
(* Framed ring-buffer transport of embed-zig: the HCI receive path of the  *)
(* two BLE helpers.                                                        *)
(*                                                                         *)
(*   ESP : src/lib/platform/esp/idf/src/bt/bt_helper.c                     *)
(*         (rx_ring / rx_head / rx_tail, portMUX spinlock, rx_sem)         *)
(*   BK  : src/lib/platform/bk/armino/src/bk_zig_ble_helper.c              *)
(*         (s_ring_buf / s_ring_head / s_ring_tail, RTOS mutex, s_data_sem)*)
(*                                                                         *)
(* One producer context (the controller callback) and one consumer task    *)
(* (the Zig host task, which issues init / deinit / recv / has_data /      *)
(* wait_for_data one call at a time).  The variable `variant` selects the  *)
(* helper and never changes.                                               *)
(***************************************************************************)
EXTENDS Integers, Sequences, FiniteSets, TLC

(***************************************************************************)
(* Bounds of the model.                                                    *)
(***************************************************************************)
\* Ring capacity N: RX_RING_SIZE (4096) and HCI_BUF_SIZE (32768) scaled down.
RingSize == 8
\* Saturation of the wake-up semaphore count (256 in BK, scaled down).
SemMaxCount == 2
\* Number of non-empty packets the controller delivers in one run.
MaxOffers == 3
MaxWaitOffers == 2
\* Slots of the WiFi event queue: MAX_EVENTS (16) scaled down.
MAX_EVENTS == 4
\* Number of events handed to push_event in one run.
MaxPush == 5
\* s_frame_size, the bytes of one 20 ms frame of one channel (640 at 16 kHz),
\* scaled down.
MicFrameSize == 4

N == RingSize

\* The packet of n bytes the controller delivers: <<1>>, <<2, 1>>,
\* <<1, 2, 1>>, ... (packets of different lengths differ in every position
\* they share).
PacketOfLen(n) == [i \in 1..n |-> 1 + ((n + i) % 2)]

\* A packet whose frame (2 + len) exceeds the N-1 usable bytes.
OversizePkt == [i \in 1..(N - 2) |-> 1]

\* Lengths of the ordinary packets (indicator + payload) delivered.
PktLens == {1, 2}

\* Packets offered to the producer callback: the empty one, one packet of
\* each ordinary length, and one that is larger than the whole ring.
Packets == {<<>>} \cup {PacketOfLen(n) : n \in PktLens} \cup {OversizePkt}

\* Buffer sizes the consumer passes to recv: too small for a 2-byte packet,
\* and large enough for anything.
BufLens == {1, N}

\* timeout_ms values passed to wait_for_data: forever, poll, finite.
Timeouts == {-1, 0, 5}

(***************************************************************************)
(* Fixed-width integer arithmetic.                                         *)
(***************************************************************************)
\* Conversion to uint16_t.
U16(x) == x % 65536

\* Conversion to uint8_t.
U8(x) == x % 256

\* C's % on int operands: the result has the sign of the dividend.
CRem(a, n) == IF a >= 0 THEN a % n ELSE -((-a) % n)

\* uint32_t values are held as two 16-bit limbs, so that wrap-around of the
\* 32-bit type is computed and not assumed.
ToU32(x) == [hi |-> ((x - (x % 65536)) \div 65536) % 65536, lo |-> x % 65536]

U32Add(a, b) ==
    LET s == a.lo + b.lo
    IN  [hi |-> (a.hi + b.hi + (s \div 65536)) % 65536, lo |-> s % 65536]

U32Sub(a, b) ==
    LET d == a.lo - b.lo
        borrow == IF d < 0 THEN 1 ELSE 0
    IN  [hi |-> (a.hi - b.hi - borrow) % 65536, lo |-> d % 65536]

\* Unsigned remainder of a uint32_t by a small positive n.
U32Rem(a, n) == (((a.hi % n) * (65536 % n)) + a.lo) % n

\* Unsigned comparison a < b.
U32Less(a, b) == a.hi < b.hi \/ (a.hi = b.hi /\ a.lo < b.lo)

(***************************************************************************)
(* Ring primitives, ESP variant (uint16_t cursors, int arithmetic).        *)
(***************************************************************************)
\* head - tail is computed in int after integer promotion, % keeps the sign
\* of the dividend, and the result is converted to uint16_t.
esp_ring_used(h, t) == U16(CRem(h - t, N))

esp_ring_free(h, t) == U16(N - 1 - esp_ring_used(h, t))

(***************************************************************************)
(* Ring primitives, BK variant (uint32_t cursors, unsigned arithmetic).    *)
(***************************************************************************)
bk_ring_used(h, t) ==
    U32Rem(U32Add(U32Sub(ToU32(h), ToU32(t)), ToU32(N)), N)

\* HCI_BUF_SIZE - 1 - ring_used(), as a uint32_t.
bk_ring_free(h, t) ==
    U32Sub(U32Sub(ToU32(N), ToU32(1)), ToU32(bk_ring_used(h, t)))

\* Cursor distance of the data model: used = (head - tail + N) mod N.
Used(h, t) == (h - t + N) % N

\* The n bytes stored from position t on.
RingBytes(b, t, n) == [i \in 1..n |-> b[(t + i - 1) % N]]

(***************************************************************************)
(* Frame header.                                                           *)
(***************************************************************************)
\* ESP: uint8_t hdr[2] = { len & 0xFF, len >> 8 }
esp_hdr(len) == <<U8(len % 256), U8(len \div 256)>>

\* Mutation of bk_hdr: the low byte of the length is stored first.
bk_hdr_LowByteFirst(len) == <<U8(len % 256), U8(len \div 256)>>

\* BK: uint8_t hdr[2] = { len >> 8, len & 0xFF }
bk_hdr(len) == <<U8(len \div 256), U8(len % 256)>>

\* Mutation of esp_pkt_len: the header is decoded high byte first.
esp_pkt_len_BigEndian(h0, h1) == U16(h0 * 256 + h1)

\* ESP: pkt_len = (uint16_t)(hdr[0] | (hdr[1] << 8))
esp_pkt_len(h0, h1) == U16(h0 + h1 * 256)

\* BK: pkt_len = ((uint16_t)hdr[0] << 8) | hdr[1]
bk_pkt_len(h0, h1) == U16(h0 * 256 + h1)


(***************************************************************************)
(* recv as a function of the ring: [ret, tail, out].                       *)
(***************************************************************************)
\* bt_helper_recv between portENTER_CRITICAL and portEXIT_CRITICAL.
esp_recv(b, h, t, buf_len) ==
    LET used == esp_ring_used(h, t)
        pkt_len == esp_pkt_len(b[t], b[(t + 1) % N])
    IN  IF used < 2
        THEN [ret |-> 0, tail |-> t, out |-> <<>>, why |-> "empty"]
        ELSE IF used < U16(2 + pkt_len)
        THEN [ret |-> 0, tail |-> t, out |-> <<>>, why |-> "incomplete"]
        ELSE IF pkt_len > buf_len
        THEN [ret |-> -1, tail |-> (t + U16(2 + pkt_len)) % N, out |-> <<>>,
              why |-> "toolarge"]
        ELSE [ret |-> pkt_len, tail |-> (((t + 2) % N) + pkt_len) % N,
              out |-> RingBytes(b, (t + 2) % N, pkt_len), why |-> "ok"]

\* bk_zig_ble_recv between rtos_lock_mutex and rtos_unlock_mutex.
bk_recv(b, h, t, max_len) ==
    LET t2 == (t + 2) % N
        pkt_len == bk_pkt_len(b[t], b[(t + 1) % N])
    IN  IF bk_ring_used(h, t) < 2
        THEN [ret |-> 0, tail |-> t, out |-> <<>>, why |-> "empty"]
        ELSE IF pkt_len > max_len
        THEN [ret |-> 0, tail |-> t, out |-> <<>>, why |-> "toolarge"]
        ELSE IF bk_ring_used(h, t2) < pkt_len
        THEN [ret |-> 0, tail |-> t, out |-> <<>>, why |-> "incomplete"]
        ELSE [ret |-> pkt_len, tail |-> (t2 + pkt_len) % N,
              out |-> RingBytes(b, t2, pkt_len), why |-> "ok"]

(***************************************************************************)
(* State.                                                                  *)
(***************************************************************************)
VARIABLES
    variant,      \* "ESP" or "BK"
    buf,          \* rx_ring / s_ring_buf
    head,         \* rx_head / s_ring_head
    tail,         \* rx_tail / s_ring_tail
    lock,         \* holder of rx_lock / s_ring_mutex: "none", "prod", "cons"
    mutexAlive,   \* BK: s_ring_mutex != NULL (ESP: rx_lock is static, TRUE)
    semAlive,     \* rx_sem / s_data_sem != NULL
    sem,          \* count of the wake-up semaphore
    registered,   \* the controller delivers packets to the callback
    initialized,  \* BK: s_initialized
    drop_count,   \* BK: s_drop_count
    ppc,          \* producer callback: position
    pctx,         \* producer callback: "task" or "isr"
    ppkt,         \* producer callback: the packet (buf, len)
    pidx,         \* producer callback: frame bytes written so far
    cpc,          \* consumer task: position
    carg,         \* consumer task: argument of the call in progress
    cret,         \* consumer task: semaphore-get result of the wait in progress
    last,         \* consumer task: the call that returned last, and its result
    pres,         \* observer: outcome of the last callback
    pending,      \* observer: packets accepted and not yet taken out
    offered,      \* observer: non-empty packets delivered so far
    raced,        \* observer: init or deinit has run during a callback
    rt,           \* observer: packet of a store-then-recv round trip under way
    wstore,       \* observer: a store completed while the consumer was in w_get
    unstored      \* observer (BK): packets delivered since init marked the
                  \* transport initialized and not stored whole

\* The WiFi event queue of bk_zig_wifi_helper.c and its two contexts: "h",
\* the event-handler context (wifi_event_handler, netif_event_handler), and
\* "t", the consumer task (bk_zig_wifi_poll_event, bk_zig_wifi_sta_disconnect).
VARIABLES
    s_events,     \* s_events[]: the event stored in each slot (0: none yet)
    s_head,       \* s_head: index of the oldest undelivered event
    s_tail,       \* s_tail: index of the next free slot
    wpc,          \* position of each context
    wev,          \* push_event: the event being pushed by each context
    wreg,         \* the value each context has loaded from s_head / s_tail
    wout,         \* poll: the event copied to *out_type
    wres,         \* the last return of bk_zig_wifi_poll_event: [ret, ev]
    wpushed,      \* observer: events handed to push_event so far
    wlive,        \* observer: the queue as specified (drop-oldest FIFO)
    wdrop,        \* observer: event the specified queue dropped during the
                  \* task's call in progress (0: none)
    woverlap      \* observer: a handler has run inside a call of the task

\* The microphone reader of bk_zig_mic_helper.c.
VARIABLES
    mic_initialized,  \* s_initialized
    s_channels,       \* s_channels
    mfill,            \* ring_buffer_get_fill_size(&s_rb)
    msem,             \* count of s_read_sem
    mpc,              \* bk_zig_mic_read: position
    max_samples,      \* bk_zig_mic_read: argument
    need_bytes,       \* bk_zig_mic_read: need_bytes
    mavail,           \* bk_zig_mic_read: avail
    mres              \* the last return of bk_zig_mic_read

bleVars == <<variant, buf, head, tail, lock, mutexAlive, semAlive, sem,
             registered, initialized, drop_count, ppc, pctx, ppkt, pidx,
             cpc, carg, cret, last, pres, pending, offered, raced, rt,
             wstore, unstored>>

wifiVars == <<s_events, s_head, s_tail, wpc, wev, wreg, wout, wres, wpushed,
              wlive, wdrop, woverlap>>

micVars == <<mic_initialized, s_channels, mfill, msem, mpc, max_samples,
             need_bytes, mavail, mres>>

vars == <<bleVars, wifiVars, micVars>>

ringVars == <<buf, head, tail>>
prodVars == <<ppc, pctx, ppkt, pidx>>
consVars == <<cpc, carg, cret, last>>
lifeVars == <<mutexAlive, semAlive, registered, initialized>>

\* Result of a consumer call: the call, its argument, its return value, the bytes copied to
\* the caller's buffer, the branch taken, and (observer) the oldest accepted
\* packet not yet taken out when the call looked at the ring.
Result(op, arg, ret, out, why, exp) ==
    [op |-> op, arg |-> arg, ret |-> ret, out |-> out, why |-> why,
     exp |-> exp]

\* No round trip under observation.
RtNone == [p |-> <<>>, done |-> FALSE]

\* Packet rt.p went into an empty ring and has not been received yet.
RtArmed == rt.p # <<>> /\ ~rt.done

NoCall == Result("none", 0, 0, <<>>, "none", <<>>)

\* The two contexts that use the WiFi event queue.
WifiCtx == {"h", "t"}

\* static bk_zig_event_t s_events[MAX_EVENTS]; s_head = 0; s_tail = 0;
WifiInit ==
    /\ s_events = [i \in 0..(MAX_EVENTS - 1) |-> 0]
    /\ s_head = 0
    /\ s_tail = 0
    /\ wpc = [c \in WifiCtx |-> "idle"]
    /\ wev = [c \in WifiCtx |-> 0]
    /\ wreg = [c \in WifiCtx |-> 0]
    /\ wout = 0
    /\ wres = <<>>
    /\ wpushed = 0
    /\ wlive = <<>>
    /\ wdrop = {}
    /\ woverlap = FALSE

\* The microphone before bk_zig_mic_init.
MicInit ==
    /\ mic_initialized = FALSE
    /\ s_channels = 1
    /\ mfill = 0
    /\ msem = 0
    /\ mpc = "idle"
    /\ max_samples = 0
    /\ need_bytes = ToU32(0)
    /\ mavail = 0
    /\ mres = 0

Init ==
    /\ variant \in {"ESP", "BK"}
    /\ buf = [i \in 0..(N - 1) |-> 0]
    /\ head = 0
    /\ tail = 0
    /\ lock = "none"
    /\ mutexAlive = (variant = "ESP")
    /\ semAlive = FALSE
    /\ sem = 0
    /\ registered = FALSE
    /\ initialized = FALSE
    /\ drop_count = 0
    /\ ppc = "idle"
    /\ pctx = "task"
    /\ ppkt = <<>>
    /\ pidx = 0
    /\ cpc = "idle"
    /\ carg = 0
    /\ cret = 0
    /\ last = NoCall
    /\ pres = "none"
    /\ pending = <<>>
    /\ offered = 0
    /\ raced = FALSE
    /\ rt = RtNone
    /\ wstore = FALSE
    /\ unstored = 0
    /\ WifiInit
    /\ MicInit

(***************************************************************************)
(* Scheduling.                                                             *)
(***************************************************************************)
\* A callback running in interrupt context (BK, IPC interrupt) preempts the
\* consumer task until it returns.
ConsumerCanRun == ~(ppc # "idle" /\ pctx = "isr")

\* Contexts the callback is invoked from: the BT controller task on ESP; an
\* IPC task or the IPC interrupt on BK.
Contexts == IF variant = "BK" THEN {"task", "isr"} ELSE {"task"}

\* The bytes of the frame the callback stores for packet p.
FrameBytes(p) ==
    (IF variant = "ESP" THEN esp_hdr(Len(p)) ELSE bk_hdr(Len(p))) \o p

\* ESP: uint16_t total = 2 + len;
esp_total(len) == U16(2 + len)

\* BK: uint32_t total = 2 + len;
bk_total(len) == ToU32(2 + len)

\* ring_free() < total, as the callback evaluates it.
NoRoom(h, t, len) ==
    IF variant = "ESP"
    THEN esp_ring_free(h, t) < esp_total(len)
    ELSE U32Less(bk_ring_free(h, t), bk_total(len))

\* rtos_unlock_mutex / portEXIT_CRITICAL by `who`: releases what it holds.
Released(who) == IF mutexAlive /\ lock = who THEN "none" ELSE lock

(***************************************************************************)
(* Producer callback: on_host_recv (ESP), hci_from_controller_cb (BK).     *)
(***************************************************************************)
\* A round trip is observed for a packet that fits an empty ring and is
\* delivered, to a running transport, while the consumer is between calls.
Armable(p) ==
    /\ Len(p) >= 1
    /\ Len(p) + 2 <= N - 1
    /\ head = tail
    /\ cpc = "idle"
    /\ variant = "BK" => initialized

\* Mutation of P_Invoke: a zero-length packet is handled like any other.
P_Invoke_StoreEmpty(p, ctx, limit) ==
    /\ ppc = "idle"
    /\ registered
    /\ ctx \in Contexts
    /\ Len(p) > 0 => offered < limit
    /\ offered' = IF Len(p) > 0 THEN offered + 1 ELSE offered
    /\ IF variant = "BK" /\ ~initialized
       THEN /\ pres' = "ignored"
            /\ UNCHANGED <<prodVars>>
       ELSE /\ ppc' = "lock"
            /\ pctx' = ctx
            /\ ppkt' = p
            /\ pidx' = 0
            /\ pres' = "none"
    /\ rt' = IF Armable(p) THEN [p |-> p, done |-> FALSE] ELSE RtNone
    /\ unstored' = IF variant = "BK" /\ initialized /\ Len(p) > 0
                   THEN unstored + 1 ELSE unstored
    /\ UNCHANGED <<wifiVars, micVars>>
    /\ UNCHANGED <<variant, ringVars, lock, lifeVars, sem, drop_count,
                   consVars, pending, raced, wstore>>

\* Entry: a zero-length packet, or (BK) a transport that is not initialized,
\* returns at once.
P_Invoke(p, ctx, limit) ==
    /\ ppc = "idle"
    /\ registered
    /\ ctx \in Contexts
    /\ Len(p) > 0 => offered < limit
    /\ offered' = IF Len(p) > 0 THEN offered + 1 ELSE offered
    /\ IF Len(p) = 0 \/ (variant = "BK" /\ ~initialized)
       THEN /\ pres' = "ignored"
            /\ UNCHANGED <<prodVars>>
       ELSE /\ ppc' = "lock"
            /\ pctx' = ctx
            /\ ppkt' = p
            /\ pidx' = 0
            /\ pres' = "none"
    /\ rt' = IF Armable(p) THEN [p |-> p, done |-> FALSE] ELSE RtNone
    /\ unstored' = IF variant = "BK" /\ initialized /\ Len(p) > 0
                   THEN unstored + 1 ELSE unstored
    /\ UNCHANGED <<wifiVars, micVars>>
    /\ UNCHANGED <<variant, ringVars, lock, lifeVars, sem, drop_count,
                   consVars, pending, raced, wstore>>

\* Mutation of P_Lock: the callback goes on without taking the lock.
P_Lock_NoLock ==
    /\ ppc = "lock"
    /\ ppc' = "check"
    /\ UNCHANGED <<wifiVars, micVars>>
    /\ UNCHANGED <<unstored, variant, ringVars, lock, lifeVars, sem, drop_count, pctx,
                   ppkt, pidx, consVars, pres, pending, offered, raced, rt,
                   wstore>>

\* portENTER_CRITICAL(&rx_lock) / if (s_ring_mutex) rtos_lock_mutex(...).
P_Lock ==
    /\ ppc = "lock"
    /\ IF mutexAlive
       THEN lock = "none" /\ lock' = "prod"
       ELSE UNCHANGED lock
    /\ ppc' = "check"
    /\ UNCHANGED <<wifiVars, micVars>>
    /\ UNCHANGED <<unstored, variant, ringVars, lifeVars, sem, drop_count, pctx, ppkt,
                   pidx, consVars, pres, pending, offered, raced, rt, wstore>>

\* if (ring_free() < total) { drop; unlock; return; }
P_Check ==
    /\ ppc = "check"
    /\ IF NoRoom(head, tail, Len(ppkt))
       THEN /\ drop_count' = IF variant = "BK"
                             THEN drop_count + 1 ELSE drop_count
            /\ lock' = Released("prod")
            /\ ppc' = "idle"
            /\ pctx' = "task"
            /\ ppkt' = <<>>
            /\ pres' = "dropped"
            /\ UNCHANGED pending
       ELSE /\ ppc' = "write"
            /\ pending' = Append(pending, ppkt)
            /\ UNCHANGED <<drop_count, lock, pres, pctx, ppkt>>
    /\ UNCHANGED <<wifiVars, micVars>>
    /\ UNCHANGED <<unstored, variant, ringVars, lifeVars, sem, pidx, consVars, offered,
                   raced, rt, wstore>>

\* ESP ring_write() refuses a whole part (header or data) if ring_free() is
\* smaller than the part; BK ring_write_unlocked() has no such test.
PartRefused ==
    /\ variant = "ESP"
    /\ \/ pidx = 0 /\ esp_ring_free(head, tail) < 2
       \/ pidx = 2 /\ esp_ring_free(head, tail) < Len(ppkt)

\* One iteration of the copy loop of ring_write / ring_write_unlocked (the
\* header bytes first, the packet bytes after them).
P_Write ==
    /\ ppc = "write"
    /\ LET total == 2 + Len(ppkt)
           next == IF PartRefused
                   THEN (IF pidx = 0 THEN 2 ELSE total)
                   ELSE pidx + 1
       IN  /\ IF PartRefused
              THEN UNCHANGED <<buf, head>>
              ELSE /\ buf' = [buf EXCEPT ![head] = FrameBytes(ppkt)[pidx + 1]]
                   /\ head' = (head + 1) % N
           /\ pidx' = next
           /\ ppc' = IF next >= total THEN "unlock" ELSE "write"
           /\ wstore' = (wstore \/ (next >= total /\ cpc = "w_get"))
    /\ UNCHANGED <<wifiVars, micVars>>
    /\ UNCHANGED <<unstored, variant, tail, lock, lifeVars, sem, drop_count, pctx, ppkt,
                   consVars, pres, pending, offered, raced, rt>>

\* portEXIT_CRITICAL(&rx_lock) / if (s_ring_mutex) rtos_unlock_mutex(...).
P_Unlock ==
    /\ ppc = "unlock"
    /\ lock' = Released("prod")
    /\ ppc' = "post"
    /\ UNCHANGED <<wifiVars, micVars>>
    /\ UNCHANGED <<unstored, variant, ringVars, lifeVars, sem, drop_count, pctx, ppkt,
                   pidx, consVars, pres, pending, offered, raced, rt, wstore>>

\* if (rx_sem != NULL) xSemaphoreGive(rx_sem) (binary semaphore) /
\* if (s_data_sem) rtos_set_semaphore(&s_data_sem) (counting semaphore).
SemLimit == IF variant = "ESP" THEN 1 ELSE SemMaxCount

\* Mutation of P_Post: the callback returns without giving the semaphore.
P_Post_NoGive ==
    /\ ppc = "post"
    /\ ppc' = "idle"
    /\ pctx' = "task"
    /\ ppkt' = <<>>
    /\ pidx' = 0
    /\ pres' = "stored"
    /\ unstored' = IF unstored > 0 THEN unstored - 1 ELSE unstored
    /\ UNCHANGED <<wifiVars, micVars>>
    /\ UNCHANGED <<variant, ringVars, lock, lifeVars, sem, drop_count,
                   consVars, pending, offered, raced, rt, wstore>>

P_Post ==
    /\ ppc = "post"
    /\ sem' = IF semAlive /\ sem < SemLimit THEN sem + 1 ELSE sem
    /\ unstored' = IF unstored > 0 THEN unstored - 1 ELSE unstored
    /\ ppc' = "idle"
    /\ pctx' = "task"
    /\ ppkt' = <<>>
    /\ pidx' = 0
    /\ pres' = "stored"
    /\ UNCHANGED <<wifiVars, micVars>>
    /\ UNCHANGED <<variant, ringVars, lock, lifeVars, drop_count, consVars,
                   pending, offered, raced, rt, wstore>>

\* The callback, with at most `limit` non-empty packets delivered.
ProducerUpTo(limit) ==
    \/ \E p \in Packets, ctx \in {"task", "isr"} : P_Invoke(p, ctx, limit)
    \/ P_Lock
    \/ P_Check
    \/ P_Write
    \/ P_Unlock
    \/ P_Post

Producer == ProducerUpTo(MaxOffers)

(***************************************************************************)
(* Consumer task: one API call at a time.                                  *)
(***************************************************************************)
Oldest == IF pending = <<>> THEN <<>> ELSE Head(pending)

\* A call that does not touch the ring leaves a round trip under way alone,
\* and ends the observation of one that is complete.
RtKept == IF rt.done THEN RtNone ELSE rt

\* Set, for good, when init or deinit runs while a callback is in progress.
Overlap == raced \/ ppc # "idle"

\* --- recv: bt_helper_recv (ESP), bk_zig_ble_recv (BK) ---------------------
C_CallRecv(len) ==
    /\ cpc = "idle"
    /\ ConsumerCanRun
    /\ cpc' = "r_lock"
    /\ carg' = len
    /\ last' = NoCall
    /\ rt' = IF ppc = "idle" /\ len >= Len(rt.p) /\ ~rt.done THEN rt ELSE RtNone
    /\ UNCHANGED <<wifiVars, micVars>>
    /\ UNCHANGED <<unstored, variant, ringVars, lock, lifeVars, sem, drop_count,
                   prodVars, cret, pres, pending, offered, raced, wstore>>

\* portENTER_CRITICAL(&rx_lock) / if (s_ring_mutex) rtos_lock_mutex(...).
R_Lock ==
    /\ cpc = "r_lock"
    /\ ConsumerCanRun
    /\ IF mutexAlive
       THEN lock = "none" /\ lock' = "cons"
       ELSE UNCHANGED lock
    /\ cpc' = "r_body"
    /\ UNCHANGED <<wifiVars, micVars>>
    /\ UNCHANGED <<unstored, variant, ringVars, lifeVars, sem, drop_count, prodVars,
                   carg, cret, last, pres, pending, offered, raced, rt, wstore>>

RecvResult ==
    IF variant = "ESP"
    THEN esp_recv(buf, head, tail, carg)
    ELSE bk_recv(buf, head, tail, carg)

\* The critical section of recv, up to and including the unlock and return.
R_Body ==
    /\ cpc = "r_body"
    /\ ConsumerCanRun
    /\ LET r == RecvResult
       IN  /\ tail' = r.tail
           /\ last' = Result("recv", carg, r.ret, r.out, r.why, Oldest)
           /\ pending' = IF r.ret # 0 /\ pending # <<>>
                         THEN Tail(pending) ELSE pending
    /\ lock' = Released("cons")
    /\ cpc' = "idle"
    /\ carg' = 0
    /\ rt' = IF RtArmed THEN [rt EXCEPT !.done = TRUE] ELSE RtNone
    /\ UNCHANGED <<wifiVars, micVars>>
    /\ UNCHANGED <<unstored, variant, buf, head, lifeVars, sem, drop_count, prodVars,
                   cret, pres, offered, raced, wstore>>

\* --- bt_helper_has_data (ESP) ---------------------------------------------
C_CallHasData ==
    /\ cpc = "idle"
    /\ ConsumerCanRun
    /\ variant = "ESP"
    /\ cpc' = "h_lock"
    /\ carg' = 0
    /\ last' = NoCall
    /\ rt' = RtKept
    /\ UNCHANGED <<wifiVars, micVars>>
    /\ UNCHANGED <<unstored, variant, ringVars, lock, lifeVars, sem, drop_count,
                   prodVars, cret, pres, pending, offered, raced, wstore>>

H_Lock ==
    /\ cpc = "h_lock"
    /\ ConsumerCanRun
    /\ lock = "none"
    /\ lock' = "cons"
    /\ cpc' = "h_body"
    /\ UNCHANGED <<wifiVars, micVars>>
    /\ UNCHANGED <<unstored, variant, ringVars, lifeVars, sem, drop_count, prodVars,
                   carg, cret, last, pres, pending, offered, raced, rt, wstore>>

H_Body ==
    /\ cpc = "h_body"
    /\ ConsumerCanRun
    /\ last' = Result("has_data", carg,
                      IF esp_ring_used(head, tail) >= 2 THEN 1 ELSE 0,
                      <<>>, "none", Oldest)
    /\ lock' = Released("cons")
    /\ cpc' = "idle"
    /\ UNCHANGED <<wifiVars, micVars>>
    /\ UNCHANGED <<unstored, variant, ringVars, lifeVars, sem, drop_count, prodVars,
                   carg, cret, pres, pending, offered, raced, rt, wstore>>

\* --- send: bt_helper_send (ESP), bk_zig_ble_send_cmd / _send_acl (BK) ------
\* The value bk_zig_ble_can_send() returns.
bk_can_send == IF initialized THEN 1 ELSE 0

\* The smallest well-formed command and ACL packet.
CmdMin == 3
AclMin == 4

\* Packet lengths passed to the BK send functions: one below the smallest
\* well-formed packet, and that size.
CmdLens == {CmdMin - 1, CmdMin}
AclLens == {AclMin - 1, AclMin}

\* if (!esp_vhci_host_check_send_available()) return -1;
\* esp_vhci_host_send_packet(data, len); return 0;
\* `avail` is the controller's answer (a controller that is not enabled
\* answers false); last.arg records it, last.why whether the packet was
\* handed to the controller.
C_SendEsp(avail) ==
    /\ cpc = "idle"
    /\ ConsumerCanRun
    /\ variant = "ESP"
    /\ avail => registered
    /\ last' = Result("send", IF avail THEN 1 ELSE 0,
                      IF avail THEN 0 ELSE -1, <<>>,
                      IF avail THEN "forwarded" ELSE "none", <<>>)
    /\ rt' = RtKept
    /\ UNCHANGED <<wifiVars, micVars>>
    /\ UNCHANGED <<unstored, variant, ringVars, lock, lifeVars, sem, drop_count,
                   prodVars, cpc, carg, cret, pres, pending, offered, raced,
                   wstore>>

\* if (len < min) return -1;  bt_ipc_hci_send_cmd / _send_acl_data(...);
\* return 0;   (min is CmdMin for bk_zig_ble_send_cmd, AclMin for
\* bk_zig_ble_send_acl; last.arg records the value can_send() has at the call)
C_SendBk(len, min) ==
    /\ cpc = "idle"
    /\ ConsumerCanRun
    /\ variant = "BK"
    /\ last' = Result("send", bk_can_send,
                      IF len < min THEN -1 ELSE 0, <<>>,
                      IF len < min THEN "short" ELSE "forwarded", <<>>)
    /\ rt' = RtKept
    /\ UNCHANGED <<wifiVars, micVars>>
    /\ UNCHANGED <<unstored, variant, ringVars, lock, lifeVars, sem, drop_count,
                   prodVars, cpc, carg, cret, pres, pending, offered, raced,
                   wstore>>

\* --- bk_zig_ble_wait_for_data (BK) ----------------------------------------
C_CallWait(timeout_ms) ==
    /\ cpc = "idle"
    /\ ConsumerCanRun
    /\ variant = "BK"
    /\ cpc' = "w_check"
    /\ carg' = timeout_ms
    /\ cret' = 0
    /\ last' = NoCall
    /\ wstore' = FALSE
    /\ rt' = RtKept
    /\ UNCHANGED <<wifiVars, micVars>>
    /\ UNCHANGED <<unstored, variant, ringVars, lock, lifeVars, sem, drop_count,
                   prodVars, pres, pending, offered, raced>>

\* Mutation of W_Check: no fast path, the call always goes to the semaphore.
W_Check_NoFastPath ==
    /\ cpc = "w_check"
    /\ ConsumerCanRun
    /\ IF ~semAlive
       THEN /\ last' = Result("wait", carg, 0, <<>>, "nosem", Oldest)
            /\ cpc' = "idle"
            /\ carg' = 0
       ELSE /\ cpc' = "w_get"
            /\ UNCHANGED <<last, carg>>
    /\ UNCHANGED <<wifiVars, micVars>>
    /\ UNCHANGED <<unstored, variant, ringVars, lock, lifeVars, sem, drop_count,
                   prodVars, cret, pres, pending, offered, raced, rt, wstore>>

\* if (ring_used() > 0) return 1;  if (!s_data_sem) return 0;
\* (the cursors are read without taking s_ring_mutex)
W_Check ==
    /\ cpc = "w_check"
    /\ ConsumerCanRun
    /\ IF bk_ring_used(head, tail) > 0
       THEN /\ last' = Result("wait", carg, 1, <<>>, "fast", Oldest)
            /\ cpc' = "idle"
            /\ carg' = 0
       ELSE IF ~semAlive
       THEN /\ last' = Result("wait", carg, 0, <<>>, "nosem", Oldest)
            /\ cpc' = "idle"
            /\ carg' = 0
       ELSE /\ cpc' = "w_get"
            /\ UNCHANGED <<last, carg>>
    /\ UNCHANGED <<wifiVars, micVars>>
    /\ UNCHANGED <<unstored, variant, ringVars, lock, lifeVars, sem, drop_count,
                   prodVars, cret, pres, pending, offered, raced, rt, wstore>>

\* rtos_get_semaphore(&s_data_sem, ticks) returns 0 with a count taken.
W_GetTake ==
    /\ cpc = "w_get"
    /\ ConsumerCanRun
    /\ sem > 0
    /\ sem' = sem - 1
    /\ cret' = 0
    /\ cpc' = "w_ret"
    /\ UNCHANGED <<wifiVars, micVars>>
    /\ UNCHANGED <<unstored, variant, ringVars, lock, lifeVars, drop_count, prodVars,
                   carg, last, pres, pending, offered, raced, rt, wstore>>

\* Mutation of W_GetTimeout: a timeout of 0 is passed on as "no deadline".
W_GetTimeout_ZeroIsForever ==
    /\ cpc = "w_get"
    /\ ConsumerCanRun
    /\ sem = 0
    /\ carg > 0
    /\ cret' = 1
    /\ cpc' = "w_ret"
    /\ UNCHANGED <<wifiVars, micVars>>
    /\ UNCHANGED <<unstored, variant, ringVars, lock, lifeVars, sem, drop_count,
                   prodVars, carg, last, pres, pending, offered, raced, rt, wstore>>

\* rtos_get_semaphore returns non-zero: no count within `ticks` (at once for
\* ticks = 0, never for BEKEN_WAIT_FOREVER).
W_GetTimeout ==
    /\ cpc = "w_get"
    /\ ConsumerCanRun
    /\ sem = 0
    /\ carg >= 0
    /\ cret' = 1
    /\ cpc' = "w_ret"
    /\ UNCHANGED <<wifiVars, micVars>>
    /\ UNCHANGED <<unstored, variant, ringVars, lock, lifeVars, sem, drop_count,
                   prodVars, carg, last, pres, pending, offered, raced, rt, wstore>>

\* Mutation of W_Ret: a count taken from the semaphore is trusted, the ring
\* is not looked at again.
W_Ret_TrustWake ==
    /\ cpc = "w_ret"
    /\ ConsumerCanRun
    /\ last' = Result("wait", carg, IF cret = 0 THEN 1 ELSE 0,
                      <<>>, IF cret = 0 THEN "woken" ELSE "timeout", Oldest)
    /\ cpc' = "idle"
    /\ carg' = 0
    /\ cret' = 0
    /\ wstore' = FALSE
    /\ UNCHANGED <<wifiVars, micVars>>
    /\ UNCHANGED <<unstored, variant, ringVars, lock, lifeVars, sem, drop_count,
                   prodVars, pres, pending, offered, raced, rt>>

\* return (ret == 0 && ring_used() > 0) ? 1 : 0;
W_Ret ==
    /\ cpc = "w_ret"
    /\ ConsumerCanRun
    /\ last' = Result("wait", carg,
                      IF cret = 0 /\ bk_ring_used(head, tail) > 0 THEN 1 ELSE 0,
                      <<>>, IF cret = 0 THEN "woken" ELSE "timeout", Oldest)
    /\ cpc' = "idle"
    /\ carg' = 0
    /\ cret' = 0
    /\ wstore' = FALSE
    /\ UNCHANGED <<wifiVars, micVars>>
    /\ UNCHANGED <<unstored, variant, ringVars, lock, lifeVars, sem, drop_count,
                   prodVars, pres, pending, offered, raced, rt>>

(***************************************************************************)
(* init / deinit.  The outcome of the vendor calls (semaphore and mutex    *)
(* creation, controller bring-up, callback registration) is an input.      *)
(***************************************************************************)
\* --- bt_helper_init (ESP) -------------------------------------------------
C_CallInitEsp ==
    /\ cpc = "idle"
    /\ ConsumerCanRun
    /\ variant = "ESP"
    /\ cpc' = "ei_sem"
    /\ carg' = 0
    /\ last' = NoCall
    /\ rt' = RtNone
    /\ UNCHANGED <<wifiVars, micVars>>
    /\ UNCHANGED <<unstored, variant, ringVars, lock, lifeVars, sem, drop_count,
                   prodVars, cret, pres, pending, offered, raced, wstore>>

\* if (rx_sem == NULL) { rx_sem = xSemaphoreCreateBinary(); ... return -5; }
EI_Sem(ok) ==
    /\ cpc = "ei_sem"
    /\ ConsumerCanRun
    /\ IF semAlive
       THEN /\ cpc' = "ei_lock"
            /\ UNCHANGED <<semAlive, sem, last>>
       ELSE IF ok
       THEN /\ semAlive' = TRUE
            /\ sem' = 0
            /\ cpc' = "ei_lock"
            /\ UNCHANGED last
       ELSE /\ last' = Result("init", carg, -5, <<>>, "none", Oldest)
            /\ cpc' = "idle"
            /\ UNCHANGED <<semAlive, sem>>
    /\ raced' = Overlap
    /\ rt' = RtNone
    /\ UNCHANGED wstore
    /\ UNCHANGED <<wifiVars, micVars>>
    /\ UNCHANGED <<unstored, variant, ringVars, lock, mutexAlive, registered,
                   initialized, drop_count, prodVars, carg, cret, pres,
                   pending, offered>>

EI_Lock ==
    /\ cpc = "ei_lock"
    /\ ConsumerCanRun
    /\ lock = "none"
    /\ lock' = "cons"
    /\ cpc' = "ei_reset"
    /\ UNCHANGED <<wifiVars, micVars>>
    /\ UNCHANGED <<unstored, variant, ringVars, lifeVars, sem, drop_count, prodVars,
                   carg, cret, last, pres, pending, offered, raced, rt, wstore>>

\* rx_head = 0; rx_tail = 0; portEXIT_CRITICAL(&rx_lock);
EI_Reset ==
    /\ cpc = "ei_reset"
    /\ ConsumerCanRun
    /\ head' = 0
    /\ tail' = 0
    /\ pending' = <<>>
    /\ lock' = Released("cons")
    /\ cpc' = "ei_ctrl"
    /\ raced' = Overlap
    /\ rt' = RtNone
    /\ UNCHANGED wstore
    /\ UNCHANGED <<wifiVars, micVars>>
    /\ UNCHANGED <<unstored, variant, buf, lifeVars, sem, drop_count, prodVars, carg,
                   cret, last, pres, offered>>

\* Steps 1-4: "ok" registers the callbacks; "fail" returns before anything
\* is running (-1, -2, -3); "undo" disables the controller again (-4).
EI_Ctrl(outcome) ==
    /\ cpc = "ei_ctrl"
    /\ ConsumerCanRun
    /\ registered' = CASE outcome = "ok" -> TRUE
                       [] outcome = "fail" -> registered
                       [] OTHER -> FALSE
    /\ last' = Result("init", carg,
                      CASE outcome = "ok" -> 0
                        [] outcome = "fail" -> -1
                        [] OTHER -> -4,
                      <<>>, "none", Oldest)
    /\ cpc' = "idle"
    /\ raced' = Overlap
    /\ rt' = RtNone
    /\ UNCHANGED wstore
    /\ UNCHANGED <<wifiVars, micVars>>
    /\ UNCHANGED <<unstored, variant, ringVars, lock, mutexAlive, semAlive, initialized,
                   sem, drop_count, prodVars, carg, cret, pres, pending, offered>>

\* --- bt_helper_deinit (ESP) -----------------------------------------------
\* esp_bt_controller_disable(); esp_bt_controller_deinit();
C_CallDeinitEsp ==
    /\ cpc = "idle"
    /\ ConsumerCanRun
    /\ variant = "ESP"
    /\ registered' = FALSE
    /\ cpc' = "ed_sem"
    /\ carg' = 0
    /\ last' = NoCall
    /\ raced' = Overlap
    /\ rt' = RtNone
    /\ UNCHANGED wstore
    /\ UNCHANGED <<wifiVars, micVars>>
    /\ UNCHANGED <<unstored, variant, ringVars, lock, mutexAlive, semAlive, initialized,
                   sem, drop_count, prodVars, cret, pres, pending, offered>>

\* if (rx_sem != NULL) { vSemaphoreDelete(rx_sem); rx_sem = NULL; }
ED_Sem ==
    /\ cpc = "ed_sem"
    /\ ConsumerCanRun
    /\ semAlive' = FALSE
    /\ sem' = 0
    /\ last' = Result("deinit", carg, 0, <<>>, "none", Oldest)
    /\ cpc' = "idle"
    /\ raced' = Overlap
    /\ rt' = RtNone
    /\ UNCHANGED wstore
    /\ UNCHANGED <<wifiVars, micVars>>
    /\ UNCHANGED <<unstored, variant, ringVars, lock, mutexAlive, registered,
                   initialized, drop_count, prodVars, carg, cret, pres,
                   pending, offered>>

\* --- bk_zig_ble_init (BK) -------------------------------------------------
\* if (s_initialized) return 0;
C_CallInitBk ==
    /\ cpc = "idle"
    /\ ConsumerCanRun
    /\ variant = "BK"
    /\ IF initialized
       THEN /\ last' = Result("init", carg, 0, <<>>, "already", Oldest)
            /\ UNCHANGED cpc
       ELSE /\ cpc' = "bi_create"
            /\ last' = NoCall
    /\ carg' = 0
    /\ rt' = RtNone
    /\ UNCHANGED <<wifiVars, micVars>>
    /\ UNCHANGED <<unstored, variant, ringVars, lock, lifeVars, sem, drop_count,
                   prodVars, cret, pres, pending, offered, raced, wstore>>

\* rtos_init_semaphore, rtos_init_mutex, bk_bluetooth_init and the
\* registration of the callback; a failure undoes what was created.
BI_Create(ok) ==
    /\ cpc = "bi_create"
    /\ ConsumerCanRun
    /\ IF ok
       THEN /\ semAlive' = TRUE
            /\ sem' = 0
            /\ mutexAlive' = TRUE
            /\ lock' = "none"
            /\ registered' = TRUE
            /\ cpc' = "bi_mark"
            /\ UNCHANGED last
       ELSE /\ semAlive' = FALSE
            /\ sem' = 0
            /\ mutexAlive' = FALSE
            /\ lock' = "none"
            /\ last' = Result("init", carg, -1, <<>>, "none", Oldest)
            /\ cpc' = "idle"
            /\ UNCHANGED registered
    /\ raced' = Overlap
    /\ rt' = RtNone
    /\ UNCHANGED wstore
    /\ UNCHANGED <<wifiVars, micVars>>
    /\ UNCHANGED <<unstored, variant, ringVars, initialized, drop_count, prodVars, carg,
                   cret, pres, pending, offered>>

\* s_initialized = 1;
BI_Mark ==
    /\ cpc = "bi_mark"
    /\ ConsumerCanRun
    /\ initialized' = TRUE
    /\ unstored' = 0
    /\ cpc' = "bi_clear"
    /\ raced' = Overlap
    /\ rt' = RtNone
    /\ UNCHANGED wstore
    /\ UNCHANGED <<wifiVars, micVars>>
    /\ UNCHANGED <<variant, ringVars, lock, mutexAlive, semAlive, registered,
                   sem, drop_count, prodVars, carg, cret, last, pres, pending,
                   offered>>

\* s_drop_count = 0; return 0;
BI_Clear ==
    /\ cpc = "bi_clear"
    /\ ConsumerCanRun
    /\ drop_count' = 0
    /\ last' = Result("init", carg, 0, <<>>, "none", Oldest)
    /\ cpc' = "idle"
    /\ raced' = Overlap
    /\ rt' = RtNone
    /\ UNCHANGED wstore
    /\ UNCHANGED <<wifiVars, micVars>>
    /\ UNCHANGED <<unstored, variant, ringVars, lock, lifeVars, sem, prodVars,
                   carg, cret, pres, pending, offered>>

\* --- bk_zig_ble_deinit (BK) -----------------------------------------------
\* if (!s_initialized) return;
\* bt_ipc_register_hci_send_callback(NULL); s_initialized = 0;
C_CallDeinitBk ==
    /\ cpc = "idle"
    /\ ConsumerCanRun
    /\ variant = "BK"
    /\ IF ~initialized
       THEN /\ last' = Result("deinit", carg, 0, <<>>, "already", Oldest)
            /\ UNCHANGED <<cpc, registered, initialized, raced>>
       ELSE /\ registered' = FALSE
            /\ initialized' = FALSE
            /\ cpc' = "bd_sem"
            /\ last' = NoCall
            /\ raced' = Overlap
    /\ rt' = RtNone
    /\ carg' = 0
    /\ UNCHANGED wstore
    /\ UNCHANGED <<wifiVars, micVars>>
    /\ UNCHANGED <<unstored, variant, ringVars, lock, mutexAlive, semAlive, sem,
                   drop_count, prodVars, cret, pres, pending, offered>>

\* if (s_data_sem) { rtos_deinit_semaphore(&s_data_sem); s_data_sem = NULL; }
BD_Sem ==
    /\ cpc = "bd_sem"
    /\ ConsumerCanRun
    /\ semAlive' = FALSE
    /\ sem' = 0
    /\ cpc' = "bd_mutex"
    /\ raced' = Overlap
    /\ rt' = RtNone
    /\ UNCHANGED wstore
    /\ UNCHANGED <<wifiVars, micVars>>
    /\ UNCHANGED <<unstored, variant, ringVars, lock, mutexAlive, registered,
                   initialized, drop_count, prodVars, carg, cret, last, pres,
                   pending, offered>>

\* if (s_ring_mutex) { rtos_deinit_mutex(&s_ring_mutex); s_ring_mutex = NULL; }
BD_Mutex ==
    /\ cpc = "bd_mutex"
    /\ ConsumerCanRun
    /\ mutexAlive' = FALSE
    /\ lock' = "none"
    /\ cpc' = "bd_reset"
    /\ raced' = Overlap
    /\ rt' = RtNone
    /\ UNCHANGED wstore
    /\ UNCHANGED <<wifiVars, micVars>>
    /\ UNCHANGED <<unstored, variant, ringVars, semAlive, registered, initialized, sem,
                   drop_count, prodVars, carg, cret, last, pres, pending, offered>>

\* Mutation of BD_Reset: deinit also clears the drop counter.
BD_Reset_ClearDrops ==
    /\ cpc = "bd_reset"
    /\ ConsumerCanRun
    /\ head' = 0
    /\ tail' = 0
    /\ pending' = <<>>
    /\ drop_count' = 0
    /\ last' = Result("deinit", carg, 0, <<>>, "none", Oldest)
    /\ cpc' = "idle"
    /\ raced' = Overlap
    /\ rt' = RtNone
    /\ UNCHANGED wstore
    /\ UNCHANGED <<wifiVars, micVars>>
    /\ UNCHANGED <<unstored, variant, buf, lock, lifeVars, sem, prodVars,
                   carg, cret, pres, offered>>

\* s_ring_head = 0; s_ring_tail = 0;  (no lock is held)
BD_Reset ==
    /\ cpc = "bd_reset"
    /\ ConsumerCanRun
    /\ head' = 0
    /\ tail' = 0
    /\ pending' = <<>>
    /\ last' = Result("deinit", carg, 0, <<>>, "none", Oldest)
    /\ cpc' = "idle"
    /\ raced' = Overlap
    /\ rt' = RtNone
    /\ UNCHANGED wstore
    /\ UNCHANGED <<wifiVars, micVars>>
    /\ UNCHANGED <<unstored, variant, buf, lock, lifeVars, sem, drop_count, prodVars,
                   carg, cret, pres, offered>>

\* recv, which both transports have.
ConsumerRecv ==
    \/ \E len \in BufLens : C_CallRecv(len)
    \/ R_Lock
    \/ R_Body

\* The rest of the ESP transport's API (bt_helper.c).
ConsumerEsp ==
    \/ C_CallHasData
    \/ H_Lock
    \/ H_Body
    \/ \E avail \in BOOLEAN : C_SendEsp(avail)
    \/ C_CallInitEsp
    \/ \E ok \in BOOLEAN : EI_Sem(ok)
    \/ EI_Lock
    \/ EI_Reset
    \/ \E o \in {"ok", "fail", "undo"} : EI_Ctrl(o)
    \/ C_CallDeinitEsp
    \/ ED_Sem

\* The rest of the BK transport's API (bk_zig_ble_helper.c).
ConsumerBk ==
    \/ \E len \in CmdLens : C_SendBk(len, CmdMin)
    \/ \E len \in AclLens : C_SendBk(len, AclMin)
    \/ \E t \in Timeouts : C_CallWait(t)
    \/ W_Check
    \/ W_GetTake
    \/ W_GetTimeout
    \/ W_Ret
    \/ C_CallInitBk
    \/ \E ok \in BOOLEAN : BI_Create(ok)
    \/ BI_Mark
    \/ BI_Clear
    \/ C_CallDeinitBk
    \/ BD_Sem
    \/ BD_Mutex
    \/ BD_Reset

Consumer == ConsumerRecv \/ ConsumerEsp \/ ConsumerBk

Next == Producer \/ Consumer

Spec == Init /\ [][Next]_vars

\* The BK transport alone.
InitBk == Init /\ variant = "BK"

NextBk == ProducerUpTo(MaxWaitOffers) \/ ConsumerRecv \/ ConsumerBk

(***************************************************************************)
(* Scheduling.  A callback that has been entered runs on to its return     *)
(* whenever its next step is possible (the controller task or the          *)
(* interrupt is not starved), and a consumer whose semaphore wait can      *)
(* succeed is woken and runs to the return of wait_for_data.  Nothing is   *)
(* assumed about when callbacks arrive or which calls the consumer makes.  *)
(* wait_for_data is defined for the BK transport only, so the fair         *)
(* specification is that of the BK transport.                              *)
(***************************************************************************)
ProducerStep == P_Lock \/ P_Check \/ P_Write \/ P_Unlock \/ P_Post

WakeStep == W_GetTake \/ W_Ret

SpecBkFair ==
    InitBk /\ [][NextBk]_vars /\ WF_vars(ProducerStep) /\ WF_vars(WakeStep)

(***************************************************************************)
(* WiFi event queue: push_event and bk_zig_wifi_poll_event                 *)
(* (bk_zig_wifi_helper.c).  The queue has no lock.  Events are told apart  *)
(* by the order in which they were handed to push_event (1, 2, ...).  The  *)
(* event handlers run in a context that preempts the consumer task: while  *)
(* a handler is inside push_event the task takes no step.                  *)
(***************************************************************************)
WifiCanStep(c) == c = "h" \/ wpc["h"] = "idle"

\* The queue as specified: a FIFO of at most MAX_EVENTS - 1 events that
\* drops its oldest event when one more is pushed.
QueueFull(q) == Len(q) = MAX_EVENTS - 1
Pushed(q, e) == IF QueueFull(q) THEN Tail(q) \o <<e>> ELSE q \o <<e>>

\* push_event returns in context c.
PushReturn(c) ==
    /\ wpc' = [wpc EXCEPT ![c] = "idle"]
    /\ wlive' = Pushed(wlive, wev[c])
    /\ wdrop' = IF c = "h" /\ wpc["t"] # "idle" /\ QueueFull(wlive)
                THEN wdrop \cup {Head(wlive)} ELSE wdrop
    /\ wres' = IF c = "t" THEN <<"disconnect", 0>> ELSE wres

\* wifi_event_handler / netif_event_handler, for an event they report.
W_Handler ==
    /\ wpc["h"] = "idle"
    /\ wpushed < MaxPush
    /\ wpushed' = wpushed + 1
    /\ wev' = [wev EXCEPT !["h"] = wpushed + 1]
    /\ wpc' = [wpc EXCEPT !["h"] = "store"]
    /\ woverlap' = (woverlap \/ wpc["t"] # "idle")
    /\ UNCHANGED <<s_events, s_head, s_tail, wreg, wout, wres, wlive, wdrop>>
    /\ UNCHANGED <<bleVars, micVars>>

\* bk_zig_wifi_sta_disconnect: ret = bk_wifi_sta_disconnect();
\* if (ret == BK_OK) push_event(ev); return ret;
T_Disconnect(ok) ==
    /\ wpc["t"] = "idle"
    /\ WifiCanStep("t")
    /\ wdrop' = {}
    /\ IF ok
       THEN /\ wpushed < MaxPush
            /\ wpushed' = wpushed + 1
            /\ wev' = [wev EXCEPT !["t"] = wpushed + 1]
            /\ wpc' = [wpc EXCEPT !["t"] = "store"]
            /\ UNCHANGED wres
       ELSE /\ wres' = <<"disconnect", -1>>
            /\ UNCHANGED <<wpushed, wev, wpc>>
    /\ UNCHANGED <<s_events, s_head, s_tail, wreg, wout, wlive, woverlap>>
    /\ UNCHANGED <<bleVars, micVars>>

\* s_events[s_tail] = ev;
PushStore(c) ==
    /\ wpc[c] = "store"
    /\ WifiCanStep(c)
    /\ s_events' = [s_events EXCEPT ![s_tail] = wev[c]]
    /\ wpc' = [wpc EXCEPT ![c] = "tail_load"]
    /\ UNCHANGED <<s_head, s_tail, wev, wreg, wout, wres, wpushed, wlive,
                   wdrop, woverlap>>
    /\ UNCHANGED <<bleVars, micVars>>

\* s_tail = (s_tail + 1) % MAX_EVENTS;  the load of the volatile s_tail
PushTailLoad(c) ==
    /\ wpc[c] = "tail_load"
    /\ WifiCanStep(c)
    /\ wreg' = [wreg EXCEPT ![c] = s_tail]
    /\ wpc' = [wpc EXCEPT ![c] = "tail_store"]
    /\ UNCHANGED <<s_events, s_head, s_tail, wev, wout, wres, wpushed, wlive,
                   wdrop, woverlap>>
    /\ UNCHANGED <<bleVars, micVars>>

\* s_tail = (s_tail + 1) % MAX_EVENTS;  the store
PushTailStore(c) ==
    /\ wpc[c] = "tail_store"
    /\ WifiCanStep(c)
    /\ s_tail' = (wreg[c] + 1) % MAX_EVENTS
    /\ wpc' = [wpc EXCEPT ![c] = "full"]
    /\ UNCHANGED <<s_events, s_head, wev, wreg, wout, wres, wpushed, wlive,
                   wdrop, woverlap>>
    /\ UNCHANGED <<bleVars, micVars>>

\* Mutation of PushFull: a push onto a full queue does not drop the oldest.
PushFull_NoDrop(c) ==
    /\ wpc[c] = "full"
    /\ WifiCanStep(c)
    /\ PushReturn(c)
    /\ UNCHANGED <<s_events, s_head, s_tail, wev, wreg, wout, wpushed,
                   woverlap>>
    /\ UNCHANGED <<bleVars, micVars>>

\* if (s_tail == s_head) ... ;  otherwise push_event returns
PushFull(c) ==
    /\ wpc[c] = "full"
    /\ WifiCanStep(c)
    /\ IF s_tail = s_head
       THEN /\ wpc' = [wpc EXCEPT ![c] = "head_load"]
            /\ UNCHANGED <<wlive, wdrop, wres>>
       ELSE PushReturn(c)
    /\ UNCHANGED <<s_events, s_head, s_tail, wev, wreg, wout, wpushed,
                   woverlap>>
    /\ UNCHANGED <<bleVars, micVars>>

\* s_head = (s_head + 1) % MAX_EVENTS;  the load of the volatile s_head
PushHeadLoad(c) ==
    /\ wpc[c] = "head_load"
    /\ WifiCanStep(c)
    /\ wreg' = [wreg EXCEPT ![c] = s_head]
    /\ wpc' = [wpc EXCEPT ![c] = "head_store"]
    /\ UNCHANGED <<s_events, s_head, s_tail, wev, wout, wres, wpushed, wlive,
                   wdrop, woverlap>>
    /\ UNCHANGED <<bleVars, micVars>>

\* s_head = (s_head + 1) % MAX_EVENTS;  the store, and the return
PushHeadStore(c) ==
    /\ wpc[c] = "head_store"
    /\ WifiCanStep(c)
    /\ s_head' = (wreg[c] + 1) % MAX_EVENTS
    /\ PushReturn(c)
    /\ UNCHANGED <<s_events, s_tail, wev, wreg, wout, wpushed, woverlap>>
    /\ UNCHANGED <<bleVars, micVars>>

\* bk_zig_wifi_poll_event:  if (s_head == s_tail) return 0;
T_PollCheck ==
    /\ wpc["t"] = "idle"
    /\ WifiCanStep("t")
    /\ wdrop' = {}
    /\ IF s_head = s_tail
       THEN /\ wres' = <<"poll", 0>>
            /\ UNCHANGED wpc
       ELSE /\ wpc' = [wpc EXCEPT !["t"] = "read"]
            /\ wres' = <<>>
    /\ UNCHANGED <<s_events, s_head, s_tail, wev, wreg, wout, wpushed, wlive,
                   woverlap>>
    /\ UNCHANGED <<bleVars, micVars>>

\* ev = &s_events[s_head]; *out_type = ev->type; (and ip, dns)
T_PollRead ==
    /\ wpc["t"] = "read"
    /\ WifiCanStep("t")
    /\ wout' = s_events[s_head]
    /\ wpc' = [wpc EXCEPT !["t"] = "adv_load"]
    /\ UNCHANGED <<s_events, s_head, s_tail, wev, wreg, wres, wpushed, wlive,
                   wdrop, woverlap>>
    /\ UNCHANGED <<bleVars, micVars>>

\* s_head = (s_head + 1) % MAX_EVENTS;  the load of the volatile s_head
T_PollAdvLoad ==
    /\ wpc["t"] = "adv_load"
    /\ WifiCanStep("t")
    /\ wreg' = [wreg EXCEPT !["t"] = s_head]
    /\ wpc' = [wpc EXCEPT !["t"] = "adv_store"]
    /\ UNCHANGED <<s_events, s_head, s_tail, wev, wout, wres, wpushed, wlive,
                   wdrop, woverlap>>
    /\ UNCHANGED <<bleVars, micVars>>

\* s_head = (s_head + 1) % MAX_EVENTS;  the store;  return 1;
\* (observer: the delivered event leaves the specified queue, unless that
\* queue dropped it, as its oldest, on a push made during this call)
T_PollAdvStore ==
    /\ wpc["t"] = "adv_store"
    /\ WifiCanStep("t")
    /\ s_head' = (wreg["t"] + 1) % MAX_EVENTS
    /\ wres' = <<"poll", 1, wout>>
    /\ wlive' = IF wlive # <<>> /\ wout = Head(wlive) THEN Tail(wlive) ELSE wlive
    /\ wpc' = [wpc EXCEPT !["t"] = "idle"]
    /\ wout' = 0
    /\ UNCHANGED <<s_events, s_tail, wev, wreg, wpushed, wdrop, woverlap>>
    /\ UNCHANGED <<bleVars, micVars>>

NextWifi ==
    \/ W_Handler
    \/ \E ok \in BOOLEAN : T_Disconnect(ok)
    \/ \E c \in WifiCtx : PushStore(c)
    \/ \E c \in WifiCtx : PushTailLoad(c)
    \/ \E c \in WifiCtx : PushTailStore(c)
    \/ \E c \in WifiCtx : PushFull(c)
    \/ \E c \in WifiCtx : PushHeadLoad(c)
    \/ \E c \in WifiCtx : PushHeadStore(c)
    \/ T_PollCheck
    \/ T_PollRead
    \/ T_PollAdvLoad
    \/ T_PollAdvStore

\* The WiFi helper alone (a BK helper).
SpecWifi == InitBk /\ [][NextWifi]_vars

\* The events between s_head and s_tail, oldest first.
QueueContent ==
    [i \in 1..((s_tail - s_head + MAX_EVENTS) % MAX_EVENTS) |->
        s_events[(s_head + i - 1) % MAX_EVENTS]]

\* Neither context is inside push_event or bk_zig_wifi_poll_event.
WifiIdle == \A c \in WifiCtx : wpc[c] = "idle"

(***************************************************************************)
(* Microphone: bk_zig_mic_read (bk_zig_mic_helper.c).  The ADC's DMA fills *)
(* a ring buffer of two DMA frames plus DMA_RB_SAFE_INTERVAL bytes and its *)
(* finish interrupt gives s_read_sem; init and deinit are called from      *)
(* another task than the reader.                                           *)
(***************************************************************************)
DMA_RB_SAFE_INTERVAL == 8

\* if (pairs > 160) pairs = 160;
MicStackPairs == 160

\* A max_samples whose byte count does not fit 32 bits in mono.
HugeSamples == 1073741824

\* The uint32_t product of a uint32_t and a small factor.
U32Mul(a, k) ==
    [hi |-> (a.hi * k + ((a.lo * k) \div 65536)) % 65536,
     lo |-> (a.lo * k) % 65536]

Min(a, b) == IF a < b THEN a ELSE b

\* s_dma_frame_size = (channels == 1) ? s_frame_size * 2 : s_frame_size;
dma_frame_size(ch) == IF ch = 1 THEN MicFrameSize * 2 ELSE MicFrameSize

\* rb_size = s_dma_frame_size * 2 + DMA_RB_SAFE_INTERVAL;
rb_size(ch) == dma_frame_size(ch) * 2 + DMA_RB_SAFE_INTERVAL

\* Values of max_samples passed to bk_zig_mic_read: none, some that the
\* ring buffer can hold, the first whose byte count in mono exceeds the
\* ring buffer, and one whose byte count in mono does not fit 32 bits.
SampleCounts == {0, 1, 3, rb_size(1) \div 4 + 1, HugeSamples}

\* bk_zig_mic_init, when every step of it succeeds.
Mic_Init(channels) ==
    /\ ~mic_initialized
    /\ mic_initialized' = TRUE
    /\ s_channels' = channels
    /\ mfill' = 0
    /\ msem' = 0
    /\ UNCHANGED <<mpc, max_samples, need_bytes, mavail, mres>>
    /\ UNCHANGED <<bleVars, wifiVars>>

\* bk_zig_mic_deinit: s_initialized = 0; the DMA is stopped, the semaphore
\* and the buffer are released.
Mic_Deinit ==
    /\ mic_initialized
    /\ mic_initialized' = FALSE
    /\ msem' = 0
    /\ UNCHANGED <<s_channels, mfill, mpc, max_samples, need_bytes, mavail,
                   mres>>
    /\ UNCHANGED <<bleVars, wifiVars>>

\* The DMA has written one more frame (the fill level stays within the
\* ring) and adc_dma_finish_isr gives the semaphore (of maximal count 2).
Mic_DmaFrame ==
    /\ mic_initialized
    /\ mfill' = Min(rb_size(s_channels), mfill + dma_frame_size(s_channels))
    /\ msem' = Min(2, msem + 1)
    /\ UNCHANGED <<mic_initialized, s_channels, mpc, max_samples, need_bytes,
                   mavail, mres>>
    /\ UNCHANGED <<bleVars, wifiVars>>

\* if (!s_initialized || !s_ring_buff) return -1;
\* need_bytes = max_samples * 4 (mono) or max_samples * 2 (stereo);
\* avail = ring_buffer_get_fill_size(&s_rb);
M_CallRead(n) ==
    /\ mpc = "idle"
    /\ IF ~mic_initialized
       THEN /\ mres' = -1
            /\ UNCHANGED <<mpc, max_samples, need_bytes, mavail>>
       ELSE /\ max_samples' = n
            /\ need_bytes' = U32Mul(ToU32(n), IF s_channels = 1 THEN 4 ELSE 2)
            /\ mavail' = mfill
            /\ mpc' = "while"
            /\ mres' = 0
    /\ UNCHANGED <<mic_initialized, s_channels, mfill, msem>>
    /\ UNCHANGED <<bleVars, wifiVars>>

\* while (avail < need_bytes)
M_While ==
    /\ mpc = "while"
    /\ mpc' = IF U32Less(ToU32(mavail), need_bytes) THEN "get" ELSE "copy"
    /\ UNCHANGED <<mic_initialized, s_channels, mfill, msem, max_samples,
                   need_bytes, mavail, mres>>
    /\ UNCHANGED <<bleVars, wifiVars>>

\* rtos_get_semaphore(&s_read_sem, 50): the count is taken, or 50 ms pass.
M_Get ==
    /\ mpc = "get"
    /\ msem' = IF msem > 0 THEN msem - 1 ELSE msem
    /\ mpc' = "recheck"
    /\ UNCHANGED <<mic_initialized, s_channels, mfill, max_samples,
                   need_bytes, mavail, mres>>
    /\ UNCHANGED <<bleVars, wifiVars>>

\* avail = ring_buffer_get_fill_size(&s_rb);
\* if (!s_initialized) return -1;
M_Recheck ==
    /\ mpc = "recheck"
    /\ IF ~mic_initialized
       THEN /\ mres' = -1
            /\ mpc' = "idle"
            /\ max_samples' = 0
            /\ need_bytes' = ToU32(0)
            /\ mavail' = 0
       ELSE /\ mavail' = mfill
            /\ mpc' = "while"
            /\ UNCHANGED <<mres, max_samples, need_bytes>>
    /\ UNCHANGED <<mic_initialized, s_channels, mfill, msem>>
    /\ UNCHANGED <<bleVars, wifiVars>>

\* The bytes bk_zig_mic_read asks ring_buffer_read for.
read_request ==
    IF s_channels = 1
    THEN ToU32(Min(max_samples, MicStackPairs) * 4)
    ELSE need_bytes

\* ring_buffer_read(...) and the return of the number of samples read.
M_Copy ==
    /\ mpc = "copy"
    /\ LET read == IF U32Less(ToU32(mfill), read_request)
                   THEN mfill ELSE read_request.lo
       IN  /\ mfill' = mfill - read
           /\ mres' = read \div (IF s_channels = 1 THEN 4 ELSE 2)
    /\ mpc' = "idle"
    /\ max_samples' = 0
    /\ need_bytes' = ToU32(0)
    /\ mavail' = 0
    /\ UNCHANGED <<mic_initialized, s_channels, msem>>
    /\ UNCHANGED <<bleVars, wifiVars>>

NextMic ==
    \/ \E ch \in {1, 2} : Mic_Init(ch)
    \/ Mic_Deinit
    \/ Mic_DmaFrame
    \/ \E n \in SampleCounts : M_CallRead(n)
    \/ M_While
    \/ M_Get
    \/ M_Recheck
    \/ M_Copy

\* The microphone helper alone (a BK helper).
SpecMic == InitBk /\ [][NextMic]_vars

(***************************************************************************)
(* Observations used by the properties.                                    *)
(***************************************************************************)
RECURSIVE FrameTotal(_)
\* Bytes the frames of the packets in q occupy: 2 + len each.
FrameTotal(q) == IF q = <<>> THEN 0 ELSE 2 + Len(Head(q)) + FrameTotal(Tail(q))

\* The callback has written some, but not all, bytes of its frame.
MidFrame == ppc = "write" /\ pidx >= 1

\* Positions whose next step reads or writes the cursors or the buffer.
ProducerAtRing == ppc \in {"check", "write"}
ConsumerAtRing ==
    cpc \in {"r_body", "h_body", "ei_reset", "w_check", "w_ret", "bd_reset"}

\* The callback is waiting for the lock.
ProducerBlocked == ppc = "lock" /\ mutexAlive /\ lock # "none"

(***************************************************************************)
(* C1  FIFO: every successful recv returns the oldest accepted packet not  *)
(* yet taken out, byte for byte, and a recv with a large enough buffer     *)
(* does not come back empty while an accepted packet is still waiting.     *)
(***************************************************************************)
C1_Fifo ==
    (~raced /\ last.op = "recv") =>
        /\ last.ret > 0 => (last.ret = Len(last.exp) /\ last.out = last.exp)
        /\ (last.arg = N /\ last.exp # <<>>) => last.ret > 0

(***************************************************************************)
(* C2  Overflow invariant: a callback that finds less free space than      *)
(* 2 + len returns at once, leaving head, tail, every buffer byte and the  *)
(* semaphore as they were, and (BK, the helper with a counter) s_drop_count*)
(* one higher.                                                             *)
(***************************************************************************)
C2_OverflowDrops ==
    [][(P_Check /\ ~raced /\ N - 1 - Used(head, tail) < 2 + Len(ppkt)) =>
          /\ ppc' = "idle"
          /\ head' = head /\ tail' = tail /\ buf' = buf
          /\ sem' = sem
          /\ variant = "BK" => drop_count' = drop_count + 1]_vars

(***************************************************************************)
(* C3  Capacity invariant: the cursors stay inside the buffer, the frames  *)
(* accepted and not yet read total at most N-1 bytes, and between          *)
(* callbacks head = tail exactly when no accepted frame is waiting.        *)
(***************************************************************************)
C3_Capacity ==
    ~raced =>
        /\ head \in 0..(N - 1)
        /\ tail \in 0..(N - 1)
        /\ FrameTotal(pending) <= N - 1
        /\ ppc = "idle" => ((head = tail) <=> (pending = <<>>))

(***************************************************************************)
(* C4  ring_used() is (head - tail + N) mod N and ring_free() is N-1 less  *)
(* that, in both helpers, for the cursor values the program reaches.       *)
(***************************************************************************)
C4_UsedFreeExact ==
    IF variant = "ESP"
    THEN /\ esp_ring_used(head, tail) = Used(head, tail)
         /\ esp_ring_free(head, tail) = N - 1 - Used(head, tail)
    ELSE /\ bk_ring_used(head, tail) = Used(head, tail)
         /\ bk_ring_free(head, tail) = ToU32(N - 1 - Used(head, tail))

(***************************************************************************)
(* C5  Atomic visibility: while recv is inside its critical section the    *)
(* callback is never part-way through writing a frame (for callbacks that  *)
(* init or deinit did not run across).                                     *)
(***************************************************************************)
C5_AtomicVisibility == ~raced => ~(cpc = "r_body" /\ MidFrame)

\* recv was called while a frame was half written, and is held at the lock.
C5_Witness == ~raced /\ cpc = "r_lock" /\ MidFrame /\ lock = "prod"

(***************************************************************************)
(* C6  Too-large frame: a recv whose buffer is smaller than the oldest     *)
(* stored frame removes that frame (tail moves by 2 + its length, head and *)
(* the buffer stay) and returns a negative status, not the 0 of "empty".   *)
(***************************************************************************)
C6_TooLargeDiscards ==
    [][(R_Body /\ ~raced /\ pending # <<>> /\ Len(Head(pending)) > carg) =>
          /\ tail' = (tail + 2 + Len(Head(pending))) % N
          /\ head' = head /\ buf' = buf
          /\ last'.ret < 0]_vars

C8_LockedAccess ==
    (mutexAlive /\ ~raced) =>
        /\ ProducerAtRing => lock = "prod"
        /\ ConsumerAtRing => lock = "cons"

(***************************************************************************)
(* C9  The callback is never stuck: no state is reachable in which it      *)
(* waits for the lock while the consumer, which holds it, cannot run.      *)
(***************************************************************************)
C9_ProducerNeverStuck == ~(ProducerBlocked /\ ~ConsumerCanRun)

(***************************************************************************)
(* C10  No lost wake-up.                                                   *)
(***************************************************************************)
\* A frame has been stored whole since the consumer passed the empty-check
\* of the wait_for_data call it is still inside.
StoredWhileWaiting == cpc \in {"w_get", "w_ret"} /\ wstore

\* C10, for every timeout: a wait_for_data during which a frame was stored
\* returns true.
C10_NoLostWakeupAnyTimeout ==
    [][(W_Ret /\ StoredWhileWaiting) => last'.ret = 1]_vars

\* C10, for timeout_ms < 0 (wait forever): once a frame has been stored while
\* the consumer is at its semaphore wait, the consumer is eventually woken and
\* wait_for_data returns true.
C10_NoLostWakeup ==
    (cpc = "w_get" /\ carg < 0 /\ wstore)
        ~> (cpc = "idle" /\ last.op = "wait" /\ last.ret = 1)

\* The consumer, waiting forever, has been woken by the post that followed a
\* store made during its wait.
C10_Witness ==
    /\ cpc = "w_ret" /\ wstore /\ carg < 0 /\ cret = 0
    /\ ppc = "idle" /\ pres = "stored"

(***************************************************************************)
(* C11  Immediate return: a ring that is non-empty when wait_for_data is   *)
(* called is still non-empty when the call looks at it, and the call then  *)
(* returns true in that step, without going to the semaphore and without   *)
(* changing its count, whatever the timeout and the count are.             *)
(***************************************************************************)
C11_ImmediateReturn ==
    [][/\ (cpc = "w_check" /\ Used(head, tail) > 0) => Used(head', tail') > 0
       /\ (W_Check /\ Used(head, tail) > 0) =>
              /\ cpc' = "idle"
              /\ last'.op = "wait" /\ last'.ret = 1
              /\ sem' = sem]_vars

\* A wait without deadline has returned true at once with no count to take.
C11_Witness ==
    /\ cpc = "idle" /\ last.op = "wait" /\ last.why = "fast"
    /\ last.ret = 1 /\ last.arg < 0 /\ sem = 0
    /\ ppc = "idle" /\ pending # <<>>

(***************************************************************************)
(* C12  wait_for_data on an initialized transport returns false only when  *)
(* its semaphore wait has timed out; so a call that waits forever          *)
(* (timeout_ms < 0) never returns false.                                   *)
(***************************************************************************)
C12_FalseOnlyOnTimeout ==
    [][((W_Check \/ W_Ret) /\ initialized /\ ~raced
            /\ last'.op = "wait" /\ last'.ret = 0) =>
          /\ cpc = "w_ret"
          /\ carg >= 0 /\ cret # 0]_vars

(***************************************************************************)
(* C13  Whenever wait_for_data has returned true the ring is non-empty and *)
(* holds an accepted, unread frame, and the recv that follows with a large *)
(* enough buffer returns that frame; a left-over semaphore count never     *)
(* yields true on an empty ring.                                           *)
(***************************************************************************)
C13_TrueMeansData ==
    [][/\ (~raced' /\ last'.op = "wait" /\ last'.ret = 1) =>
              (Used(head', tail') > 0 /\ pending' # <<>>)
       /\ (R_Body /\ ~raced /\ variant = "BK" /\ carg = N /\ pending # <<>>) =>
              (last'.ret = Len(Head(pending)) /\ last'.out = Head(pending))]_vars

\* wait_for_data, woken by the post of a store, has returned true.
C13_Witness ==
    /\ cpc = "idle" /\ last.op = "wait" /\ last.why = "woken" /\ last.ret = 1
    /\ ~raced /\ pending # <<>>

(***************************************************************************)
(* C14  A send, recv or wait_for_data made while the transport is not      *)
(* initialized returns a negative status of its own (not the 0 of "empty"  *)
(* or "timeout" or of a successful send, and not a success) and hands      *)
(* nothing to the controller.                                              *)
(***************************************************************************)
\* init has succeeded and deinit has not been called since.
Running == IF variant = "BK" THEN initialized ELSE registered

C14_UninitializedStatus ==
    (~Running /\ cpc = "idle" /\ last.op \in {"send", "recv", "wait"}) =>
        (last.ret < 0 /\ last.why # "forwarded")

(***************************************************************************)
(* C15  When deinit has returned the ring is empty (head = tail) and no    *)
(* callback is storing; a recv made while the transport is not running     *)
(* returns no frame, so no frame stored before deinit is ever returned     *)
(* afterwards.                                                             *)
(***************************************************************************)
C15_DeinitEmpties ==
    [][/\ (~raced' /\ cpc' = "idle" /\ last'.op = "deinit") =>
              (head' = tail' /\ ppc' = "idle")
       /\ (R_Body /\ ~raced /\ ~Running) => last'.ret <= 0]_vars

(***************************************************************************)
(* C16  The drop counter changes only in two ways: by +1 in the callback   *)
(* step that rejects a packet for lack of space (and every such step       *)
(* counts), and to 0 when init succeeds.  Every other step, deinit and an  *)
(* init call on an initialized transport included, leaves it unchanged.    *)
(***************************************************************************)
C16_DropCounter ==
    [][/\ \/ drop_count' = drop_count
          \/ /\ P_Check /\ ppc' = "idle"
             /\ N - 1 - Used(head, tail) < 2 + Len(ppkt)
             /\ drop_count' = drop_count + 1
          \/ BI_Clear /\ drop_count' = 0
       /\ (P_Check /\ variant = "BK" /\ ppc' = "idle") =>
              drop_count' = drop_count + 1]_vars

\* A packet was dropped and counted, and a later successful init has set the
\* counter back to 0.
C16_Witness ==
    /\ cpc = "idle" /\ last.op = "init" /\ last.ret = 0 /\ initialized
    /\ pres = "dropped" /\ drop_count = 0

(***************************************************************************)
(* C17  A send of a well-formed packet hands it to the controller (once)   *)
(* and returns 0 when can_send() is true, returns a negative not-ready     *)
(* status and hands nothing over when can_send() is false, and in neither  *)
(* case changes head, tail or the buffer.                                  *)
(***************************************************************************)
SendStep ==
    \/ \E avail \in BOOLEAN : C_SendEsp(avail)
    \/ \E len \in CmdLens : C_SendBk(len, CmdMin)
    \/ \E len \in AclLens : C_SendBk(len, AclMin)

\* C17: a send step forwards and returns 0 exactly when can_send() is true,
\* and never touches the ring.
C17_SendGated ==
    [][SendStep =>
          /\ head' = head /\ tail' = tail /\ buf' = buf
          /\ last'.why # "short" =>
                IF last'.arg = 1
                THEN last'.ret = 0 /\ last'.why = "forwarded"
                ELSE last'.ret < 0 /\ last'.why # "forwarded"]_vars

(***************************************************************************)
(* C18  bt_helper_has_data() returns true exactly when a bt_helper_recv()  *)
(* made on the ring as has_data left it, with a buffer no smaller than any *)
(* frame, returns a positive byte count.                                   *)
(***************************************************************************)
C18_HasDataAgrees ==
    [][H_Body =>
          ((last'.ret = 1) <=> (esp_recv(buf', head', tail', N).ret > 0))]_vars

C20_RecvOneFrame ==
    [][(R_Body /\ ~raced) =>
          IF pending = <<>>
          THEN /\ last'.ret = 0
               /\ tail' = tail /\ head' = head /\ buf' = buf
          ELSE carg >= Len(Head(pending)) =>
                  /\ last'.ret = Len(Head(pending))
                  /\ last'.out = Head(pending)
                  /\ tail' = (tail + 2 + Len(Head(pending))) % N
                  /\ head' = head /\ buf' = buf
                  /\ pending' = Tail(pending)]_vars

(***************************************************************************)
(* C21  Framing invariant: whenever no store is in progress the bytes      *)
(* between tail and head are a concatenation of whole frames (a 2-byte     *)
(* length L >= 1 followed by exactly L bytes), and recv never takes its    *)
(* "incomplete packet" branch.                                             *)
(***************************************************************************)
\* The length the variant's recv decodes from the two bytes at t.
HdrLen(b, t) ==
    IF variant = "ESP"
    THEN esp_pkt_len(b[t], b[(t + 1) % N])
    ELSE bk_pkt_len(b[t], b[(t + 1) % N])

RECURSIVE WholeFrames(_, _, _)
\* The Used(h, t) bytes from t on are whole frames.
WholeFrames(b, t, h) ==
    IF Used(h, t) = 0 THEN TRUE
    ELSE /\ Used(h, t) >= 2
         /\ HdrLen(b, t) >= 1
         /\ 2 + HdrLen(b, t) <= Used(h, t)
         /\ WholeFrames(b, (t + 2 + HdrLen(b, t)) % N, h)

C21_Framing ==
    ~raced =>
        /\ ppc \in {"idle", "lock", "unlock", "post"} =>
               WholeFrames(buf, tail, head)
        /\ last.op = "recv" => last.why # "incomplete"

(***************************************************************************)
(* C22  Wire format.  A store is complete at the P_Write step that writes  *)
(* the last byte of the frame; the frame then lies in the 2 + len bytes    *)
(* that end at head.                                                       *)
(***************************************************************************)
\* The callback's store completes in this step.
StoreDone == P_Write /\ ppc' = "unlock" /\ ~raced

\* The position head had when the store that completes in this step began.
StoreStart == (head' + N - ((2 + Len(ppkt)) % N)) % N

\* C22 as claimed: in every variant the stored frame is the low byte of the
\* length, the high byte, then the packet bytes, indicator first.
C22_WireFormatLowFirst ==
    [][StoreDone =>
          /\ buf'[StoreStart] = Len(ppkt) % 256
          /\ buf'[(StoreStart + 1) % N] = Len(ppkt) \div 256
          /\ RingBytes(buf', (StoreStart + 2) % N, Len(ppkt)) = ppkt]_vars

\* C22 per variant: a stored frame occupies, from the head position at store
\* time, the two bytes of the 16-bit length (ESP: low byte first; BK: high
\* byte first) and then the packet bytes, indicator first, the length
\* counting indicator + payload.
C22_WireFormat ==
    [][StoreDone =>
          /\ buf'[StoreStart] =
                 IF variant = "ESP" THEN Len(ppkt) % 256 ELSE Len(ppkt) \div 256
          /\ buf'[(StoreStart + 1) % N] =
                 IF variant = "ESP" THEN Len(ppkt) \div 256 ELSE Len(ppkt) % 256
          /\ RingBytes(buf', (StoreStart + 2) % N, Len(ppkt)) = ppkt]_vars

\* A BK frame has been stored across the end of the buffer.
C22_Witness ==
    /\ variant = "BK" /\ ppc = "unlock" /\ ~raced
    /\ head > 0 /\ head < 2 + Len(ppkt)
    /\ buf[(head + N - 1) % N] = ppkt[Len(ppkt)]

(***************************************************************************)
(* C23  A frame larger than the consumer's buffer cannot stall the         *)
(* transport: a recv with buffer size B that finds a frame longer than B   *)
(* in front of an accepted frame of at most B bytes moves tail past the    *)
(* long frame, so that the frame behind it is the oldest for the next      *)
(* recv with the same B (which then returns it).                           *)
(***************************************************************************)
C23_NoStall ==
    [][(/\ R_Body /\ ~raced
        /\ Len(pending) >= 2
        /\ Len(pending[1]) > carg
        /\ Len(pending[2]) <= carg) =>
          /\ tail' # tail
          /\ pending' # <<>> /\ Head(pending') = pending[2]
          /\ (IF variant = "ESP"
              THEN esp_recv(buf', head', tail', carg)
              ELSE bk_recv(buf', head', tail', carg)).ret = Len(pending[2])]_vars

(***************************************************************************)
(* C24  While the BK transport is running (from the step of init that      *)
(* sets s_initialized) every non-empty packet delivered to the callback    *)
(* is stored whole or counted in s_drop_count, never both and never        *)
(* neither: the callback is entered, its free-space test either accepts    *)
(* the packet or counts it, and whenever no callback and no API call is    *)
(* in progress the packets delivered and not stored equal the drop         *)
(* counter (packets offered = frames accepted + drop counter).             *)
(***************************************************************************)
\* No callback and no API call is in progress on a running BK transport.
Quiescent ==
    variant = "BK" /\ initialized /\ ~raced /\ ppc = "idle" /\ cpc = "idle"

C24_StoredOrCounted ==
    [][/\ Quiescent' => unstored' = drop_count'
       /\ (variant = "BK" /\ initialized /\ offered' = offered + 1) =>
              ppc' = "lock"
       /\ (P_Check /\ variant = "BK" /\ ~raced) =>
              \/ ppc' = "write" /\ drop_count' = drop_count
                    /\ pending' = Append(pending, ppkt)
              \/ ppc' = "idle" /\ drop_count' = drop_count + 1
                    /\ pending' = pending /\ head' = head /\ buf' = buf]_vars

(***************************************************************************)
(* C25  For every packet length the callback's uint16_t parameter can      *)
(* carry, the frame size the callback compares with the free space is      *)
(* 2 + len, without wrap-around, so that a packet whose frame does not fit *)
(* the free bytes of the ring is rejected.                                 *)
(***************************************************************************)
\* The largest value of the callback's uint16_t len.
MaxLen16 == 65535

\* Packet lengths looked at: the smallest, the largest that fits an empty
\* ring, the first that does not, and those around the byte and the 16-bit
\* boundaries.
WideLens == {1, N - 3, N - 2, 255, 256, MaxLen16 - 2, MaxLen16 - 1, MaxLen16}

\* `total` as the callback of the variant computes it, as a number.
Total(len) ==
    IF variant = "ESP"
    THEN esp_total(len)
    ELSE bk_total(len).hi * 65536 + bk_total(len).lo

\* Whenever the callback is at its free-space test, the test would work with
\* the frame size 2 + len and reject what does not fit for each of the
\* lengths (the cursors not having wrapped past each other).
C25_FrameSizeNoWrap ==
    (ppc = "check" /\ ~raced) =>
        \A len \in WideLens :
            /\ Total(len) = 2 + len
            /\ (head >= tail /\ N - 1 - (head - tail) < 2 + len) =>
                   NoRoom(head, tail, len)

(***************************************************************************)
(* C26  deinit against a callback in progress: the callback does not lock, *)
(* unlock or post a mutex or semaphore that deinit has destroyed, and once *)
(* deinit has reset the ring (BK) and returned, the ring is empty: no      *)
(* bytes are written after the reset.                                      *)
(***************************************************************************)
C26_DeinitVsCallback ==
    [][/\ (P_Lock /\ ~mutexAlive) => lock' = lock
       /\ (P_Unlock /\ ~mutexAlive) => lock' = lock
       /\ (P_Post /\ ~semAlive) => sem' = sem
       /\ (variant = "BK" /\ cpc' = "idle" /\ ~initialized'
              /\ last'.op = "deinit" /\ last'.why # "already") =>
              head' = tail']_vars

C28_SequentialQueue ==
    [][~woverlap' =>
          /\ WifiIdle' =>
                 /\ QueueContent' = wlive'
                 /\ Len(QueueContent') <= MAX_EVENTS - 1
          /\ T_PollCheck => ((wres' = <<"poll", 0>>) <=> (wlive = <<>>))
          /\ T_PollAdvStore =>
                 /\ wlive # <<>>
                 /\ wres' = <<"poll", 1, Head(wlive)>>
                 /\ wlive' = Tail(wlive)]_vars

\* With no overlap, MAX_EVENTS events were pushed onto the empty queue and
\* the poll that followed returned the second of them.
C28_Witness ==
    /\ ~woverlap /\ WifiIdle
    /\ wpushed = MAX_EVENTS
    /\ wres = <<"poll", 1, 2>>
    /\ Len(wlive) = MAX_EVENTS - 2
    /\ QueueContent = wlive

(***************************************************************************)
(* C29  WiFi event queue, a handler's push_event running inside the        *)
(* task's poll or push: poll delivers the oldest queued event (or the one  *)
(* the push made during the poll has just displaced), so that no event is  *)
(* delivered twice; between calls the queue holds exactly the events of    *)
(* the specified queue, so that no event but the oldest is lost; and poll  *)
(* does not return 0 while an event is queued.                             *)
(***************************************************************************)
\* The elements of a sequence.
Range(q) == {q[i] : i \in 1..Len(q)}

C29_ConcurrentQueue ==
    [][/\ T_PollAdvStore =>
              \/ wlive # <<>> /\ wout = Head(wlive)
              \/ wout \in wdrop
       /\ WifiIdle' =>
              /\ Range(QueueContent') = Range(wlive')
              /\ Len(QueueContent') = Len(wlive')
       /\ (T_PollCheck /\ wres' = <<"poll", 0>>) => wlive = <<>>]_vars

(***************************************************************************)
(* C30  bk_zig_mic_read on an initialized microphone returns for every     *)
(* max_samples.  In finite-run form: while the call waits in its loop on   *)
(* an initialized microphone, the byte count it waits for is one the ring  *)
(* buffer can hold (the fill level never exceeds rb_size, so a larger      *)
(* count is never reached and the loop has no other exit); a call that     *)
(* finds the microphone shut down when it re-reads the flag returns -1;    *)
(* and a call that leaves the loop returns a sample count.                 *)
(***************************************************************************)
\* bk_zig_mic_read is inside its wait loop.
MicWaiting == mpc \in {"while", "get", "recheck"}

C30_ReadReturns ==
    [][/\ (MicWaiting' /\ mic_initialized') =>
              ~U32Less(ToU32(rb_size(s_channels')), need_bytes')
       /\ (M_Recheck /\ ~mic_initialized) => (mres' = -1 /\ mpc' = "idle")
       /\ M_Copy => (mres' >= 0 /\ mpc' = "idle")]_vars

=============================================================================
